---------------------------- MODULE Spec2Model ----------------------------
(***************************************************************************)
(* Model of src/src/hooks/useFaceDetection.ts: the useFaceDetection hook   *)
(* (detectFace, the busy flag and the cached last result), the canvas      *)
(* fallback detectFaceWithCanvas and the pixel classifier isSkinTone.      *)
(*                                                                         *)
(* Numbers.  The source computes in IEEE 754 doubles, and so does the      *)
(* model: every product, quotient, sum and difference of the source is     *)
(* computed on 53-bit significands and rounded to nearest, ties to even,   *)
(* and a quotient by zero is an infinity or NaN.  Counts, pixel            *)
(* coordinates, colour channels and the canvas size are integers in the    *)
(* source and in the model.                                                *)
(***************************************************************************)
EXTENDS Integers, Sequences, FiniteSets, TLC

SetMin(S) == CHOOSE m \in S : \A n \in S : m <= n
SetMax(S) == CHOOSE m \in S : \A n \in S : m >= n

----------------------------------------------------------------------------
(* Natural numbers of any size, as sequences of base-32768 digits, least   *)
(* significant first, without leading zero digits (zero is << >>).  They   *)
(* carry the 53-bit significands of the doubles below.                     *)

Base == 2 ^ 15

RECURSIVE BTrim(_)
BTrim(a) ==
    IF a = << >> THEN << >>
    ELSE IF a[Len(a)] = 0 THEN BTrim(SubSeq(a, 1, Len(a) - 1))
    ELSE a

RECURSIVE BOfNat(_)
BOfNat(n) == IF n = 0 THEN << >> ELSE <<n % Base>> \o BOfNat(n \div Base)

RECURSIVE BToNat(_)
BToNat(a) == IF a = << >> THEN 0 ELSE a[1] + Base * BToNat(Tail(a))

BDigit(a, i) == IF i <= Len(a) THEN a[i] ELSE 0

RECURSIVE BAddFrom(_, _, _, _)
BAddFrom(a, b, i, c) ==
    IF i > Len(a) /\ i > Len(b) THEN (IF c = 0 THEN << >> ELSE <<c>>)
    ELSE LET s == BDigit(a, i) + BDigit(b, i) + c
         IN  <<s % Base>> \o BAddFrom(a, b, i + 1, s \div Base)
BAdd(a, b) == BAddFrom(a, b, 1, 0)

\* a - b, for a >= b.
RECURSIVE BSubFrom(_, _, _, _)
BSubFrom(a, b, i, c) ==
    IF i > Len(a) THEN << >>
    ELSE LET s == a[i] - BDigit(b, i) - c
         IN  IF s < 0 THEN <<s + Base>> \o BSubFrom(a, b, i + 1, 1)
             ELSE <<s>> \o BSubFrom(a, b, i + 1, 0)
BSub(a, b) == BTrim(BSubFrom(a, b, 1, 0))

\* -1, 0 or 1 as a < b, a = b or a > b.
RECURSIVE BCmpAt(_, _, _)
BCmpAt(a, b, i) ==
    IF i = 0 THEN 0
    ELSE IF a[i] < b[i] THEN -1
    ELSE IF a[i] > b[i] THEN 1
    ELSE BCmpAt(a, b, i - 1)
BCmp(a, b) ==
    IF Len(a) < Len(b) THEN -1
    ELSE IF Len(a) > Len(b) THEN 1
    ELSE BCmpAt(a, b, Len(a))

\* a * k + c for a digit k.
RECURSIVE BMulDigit(_, _, _)
BMulDigit(a, k, c) ==
    IF a = << >> THEN (IF c = 0 THEN << >> ELSE <<c>>)
    ELSE LET s == a[1] * k + c
         IN  <<s % Base>> \o BMulDigit(Tail(a), k, s \div Base)

RECURSIVE BMul(_, _)
BMul(a, b) ==
    IF a = << >> \/ b = << >> THEN << >>
    ELSE BTrim(BAdd(BMulDigit(a, b[1], 0), <<0>> \o BMul(a, Tail(b))))

RECURSIVE BZeros(_)
BZeros(n) == IF n = 0 THEN << >> ELSE <<0>> \o BZeros(n - 1)

\* a * 2^n
BShl(a, n) ==
    IF a = << >> THEN << >>
    ELSE BZeros(n \div 15) \o BMulDigit(a, 2 ^ (n % 15), 0)

\* a div 2^n
BShr(a, n) ==
    LET k == n \div 15
        r == 2 ^ (n % 15)
        d == IF k >= Len(a) THEN << >> ELSE SubSeq(a, k + 1, Len(a))
    IN  BTrim([i \in 1 .. Len(d) |->
                  (d[i] \div r) + (BDigit(d, i + 1) % r) * (Base \div r)])

RECURSIVE BitLenNat(_)
BitLenNat(n) == IF n = 0 THEN 0 ELSE 1 + BitLenNat(n \div 2)
BBitLen(a) ==
    IF a = << >> THEN 0 ELSE 15 * (Len(a) - 1) + BitLenNat(a[Len(a)])

\* bit i of a (bit 0 is the least significant).
BBit(a, i) == (BDigit(a, i \div 15 + 1) \div 2 ^ (i % 15)) % 2

\* the number of trailing zero bits of a # 0.
RECURSIVE TrailingZerosNat(_)
TrailingZerosNat(n) == IF n % 2 = 1 THEN 0 ELSE 1 + TrailingZerosNat(n \div 2)
RECURSIVE BTrailingZeros(_)
BTrailingZeros(a) ==
    IF a[1] = 0 THEN 15 + BTrailingZeros(Tail(a)) ELSE TrailingZerosNat(a[1])

\* the largest digit g, built from bit k down on top of acc, with
\* d * g <= r (r < d * Base).
RECURSIVE BQuotDigit(_, _, _, _)
BQuotDigit(r, d, k, acc) ==
    IF k < 0 THEN acc
    ELSE IF BCmp(BMulDigit(d, acc + 2 ^ k, 0), r) <= 0
    THEN BQuotDigit(r, d, k - 1, acc + 2 ^ k)
    ELSE BQuotDigit(r, d, k - 1, acc)

\* Long division, digit by digit: [q, r] with n = q * d + r and r < d
\* (q may carry leading zero digits on the way).
RECURSIVE BDivDigits(_, _)
BDivDigits(n, d) ==
    IF n = << >> THEN [q |-> << >>, r |-> << >>]
    ELSE LET p  == BDivDigits(Tail(n), d)
             r2 == BTrim(<<n[1]>> \o p.r)
             g  == BQuotDigit(r2, d, 14, 0)
         IN  [q |-> <<g>> \o p.q, r |-> BSub(r2, BMulDigit(d, g, 0))]
BDivMod(n, d) ==
    LET p == BDivDigits(n, d) IN [q |-> BTrim(p.q), r |-> p.r]

----------------------------------------------------------------------------
(* IEEE 754 doubles, as far as the source uses them.  A number is          *)
(* [k |-> "num", s, m, e] and stands for (-1)^s * m * 2^e, m being zero    *)
(* (with s = 0, e = 0) or odd and below 2^53, so that equal numbers are    *)
(* equal records.  [k |-> "inf", s] is an infinity and [k |-> "nan"] is    *)
(* NaN.  Every operation rounds to nearest, ties to even, as the source's  *)
(* arithmetic does; exponent overflow and subnormals do not occur on the   *)
(* magnitudes of this program and are not modelled.  Zero carries no sign: *)
(* the sign of a zero shows only in a division by it, and every divisor of *)
(* the source (a natural size, the scale, the restricted height) is zero   *)
(* only as +0.                                                             *)

DZero == [k |-> "num", s |-> 0, m |-> << >>, e |-> 0]
DNaN  == [k |-> "nan", s |-> 0, m |-> << >>, e |-> 0]
DInf(s) == [k |-> "inf", s |-> s, m |-> << >>, e |-> 0]

DCanon(s, m, e) ==
    IF m = << >> THEN DZero
    ELSE LET t == BTrailingZeros(m)
         IN  [k |-> "num", s |-> s, m |-> BShr(m, t), e |-> e + t]

\* The double nearest to (-1)^s * m * 2^e, or to a value just above it in
\* magnitude when sticky (then m has 56 bits or more).
\* sh bits are dropped: the result goes up when the first dropped bit is
\* set and a lower bit or the sticky flag is set (above half) or the kept
\* part is odd (a tie).
DRound(s, m, e, sticky) ==
    LET sh == IF BBitLen(m) > 53 THEN BBitLen(m) - 53 ELSE 0
        q  == BShr(m, sh)
        up == /\ sh > 0
              /\ BBit(m, sh - 1) = 1
              /\ sticky \/ BTrailingZeros(m) < sh - 1 \/ BBit(q, 0) = 1
    IN  DCanon(s, IF up THEN BAdd(q, <<1>>) ELSE q, e + sh)

\* The double of an integer of the model (exact).
D(n) == DCanon(IF n < 0 THEN 1 ELSE 0, BOfNat(IF n < 0 THEN -n ELSE n), 0)

DNeg(a) == IF a.k = "nan" \/ (a.k = "num" /\ a.m = << >>) THEN a
           ELSE [a EXCEPT !.s = 1 - a.s]

\* -1, 0, 1: the order of two numbers.
DCmp(a, b) ==
    LET e0 == IF a.e < b.e THEN a.e ELSE b.e
        c  == BCmp(BShl(a.m, a.e - e0), BShl(b.m, b.e - e0))
    IN  IF a.s = 0 /\ b.s = 0 THEN c
        ELSE IF a.s = 1 /\ b.s = 1 THEN -c
        ELSE IF a.s = 1 THEN -1
        ELSE 1

DLessOf(a, b) ==
    IF a.k = "nan" \/ b.k = "nan" THEN FALSE
    ELSE IF a.k = "inf" THEN a.s = 1 /\ ~(b.k = "inf" /\ b.s = 1)
    ELSE IF b.k = "inf" THEN b.s = 0
    ELSE DCmp(a, b) < 0

\* The sum of two numbers before it is rounded: [s, m, e].
DSumExact(a, b) ==
    LET e0 == IF a.e < b.e THEN a.e ELSE b.e
        x  == BShl(a.m, a.e - e0)
        y  == BShl(b.m, b.e - e0)
        c  == BCmp(x, y) >= 0
    IN  IF a.s = b.s THEN [s |-> a.s, m |-> BAdd(x, y), e |-> e0]
        ELSE [s |-> IF c THEN a.s ELSE b.s,
              m |-> BSub(IF c THEN x ELSE y, IF c THEN y ELSE x),
              e |-> e0]

DAddOf(a, b) ==
    IF a.k = "nan" \/ b.k = "nan" THEN DNaN
    ELSE IF a.k = "inf" /\ b.k = "inf" THEN (IF a.s = b.s THEN a ELSE DNaN)
    ELSE IF a.k = "inf" THEN a
    ELSE IF b.k = "inf" THEN b
    ELSE LET x == DSumExact(a, b) IN DRound(x.s, x.m, x.e, FALSE)


DMulOf(a, b) ==
    LET s == (a.s + b.s) % 2
    IN  IF a.k = "nan" \/ b.k = "nan" THEN DNaN
        ELSE IF a.k = "inf" \/ b.k = "inf"
        THEN (IF a = DZero \/ b = DZero THEN DNaN ELSE DInf(s))
        ELSE DRound(s, BMul(a.m, b.m), a.e + b.e, FALSE)

DDivOf(a, b) ==
    LET s == (a.s + b.s) % 2
    IN  IF a.k = "nan" \/ b.k = "nan" THEN DNaN
        ELSE IF a.k = "inf" THEN (IF b.k = "inf" THEN DNaN ELSE DInf(s))
        ELSE IF b.k = "inf" THEN DZero
        ELSE IF b.m = << >> THEN (IF a.m = << >> THEN DNaN ELSE DInf(s))
        ELSE IF a.m = << >> THEN DZero
        ELSE LET sh == 56 + BBitLen(b.m)
                 qr == BDivMod(BShl(a.m, sh), b.m)
             IN  DRound(s, qr.q, a.e - b.e - sh, qr.r # << >>)


DTruncOf(a) ==
    IF a.k # "num" THEN 0
    ELSE IF a.e >= 0 THEN BToNat(BShl(a.m, a.e))
    ELSE BToNat(BShr(a.m, -a.e))

DMinOf(a, b) ==
    IF a.k = "nan" \/ b.k = "nan" THEN DNaN
    ELSE IF DLessOf(b, a) THEN b ELSE a

\* The operations of the source.  Each takes the values of its operands
\* (the operands are worked out once, before the operation is applied).
\* +, -, * and /
DAdd(x, y) == CHOOSE r \in {DAddOf(a, b) : a \in {x}, b \in {y}} : TRUE
DSub(x, y) == CHOOSE r \in {DAddOf(a, DNeg(b)) : a \in {x}, b \in {y}} : TRUE
DMul(x, y) == CHOOSE r \in {DMulOf(a, b) : a \in {x}, b \in {y}} : TRUE
DDiv(x, y) == CHOOSE r \in {DDivOf(a, b) : a \in {x}, b \in {y}} : TRUE
\* x < y (false on NaN)
DLess(x, y) == \E a \in {x}, b \in {y} : DLessOf(a, b)
\* Math.min
DMin(x, y) == CHOOSE r \in {DMinOf(a, b) : a \in {x}, b \in {y}} : TRUE
\* The integer a canvas size setter stores for a number >= 0: the number
\* truncated; 0 for NaN and the infinities.
DTrunc(x) == CHOOSE n \in {DTruncOf(a) : a \in {x}} : TRUE

\* The decimal literal p/q of the source (p.q written in decimal): the
\* double nearest to it.
Dec(p, q) == DDiv(D(p), D(q))

----------------------------------------------------------------------------
(* isSkinTone, lines 160-172.                                              *)

Lit0299 == Dec(299, 1000)
Lit0587 == Dec(587, 1000)
Lit0114 == Dec(114, 1000)
Lit0169 == Dec(169, 1000)
Lit0331 == Dec(331, 1000)
Lit0419 == Dec(419, 1000)
Lit0081 == Dec(81, 1000)
Lit05   == Dec(5, 10)

\* line 162: 0.299 * r + 0.587 * g + 0.114 * b
Luma(r, g, b) ==
    DAdd(DAdd(DMul(Lit0299, D(r)), DMul(Lit0587, D(g))), DMul(Lit0114, D(b)))

\* line 163: 128 - 0.169 * r - 0.331 * g + 0.5 * b
Cb(r, g, b) ==
    DAdd(DSub(DSub(D(128), DMul(Lit0169, D(r))), DMul(Lit0331, D(g))),
         DMul(Lit05, D(b)))

\* line 164: 128 + 0.5 * r - 0.419 * g - 0.081 * b
Cr(r, g, b) ==
    DSub(DSub(DAdd(D(128), DMul(Lit05, D(r))), DMul(Lit0419, D(g))),
         DMul(Lit0081, D(b)))

\* lines 167-171
isSkinTone(r, g, b) ==
    LET y  == Luma(r, g, b)
        cb == Cb(r, g, b)
        cr == Cr(r, g, b)
    IN  /\ DLess(D(80), y)
        /\ DLess(D(77), cb) /\ DLess(cb, D(127))
        /\ DLess(D(133), cr) /\ DLess(cr, D(173))

----------------------------------------------------------------------------
(* Images.  An image is what the platform hands to the hook:               *)
(*   naturalWidth, naturalHeight : its native size, 1 or more;             *)
(*   status  : "ok", "broken" (drawImage throws) or "tainted"              *)
(*             (getImageData throws);                                      *)
(*   bg      : the colour drawImage gives a pixel outside all patches;     *)
(*   patches : rectangles of the working raster, [l, t, r, b, rgb] with    *)
(*             inclusive edges, later patches painted over earlier ones.   *)
(* A colour is a triple <<r, g, b>>.  Rosy is a colour whose chroma red is *)
(* 133 in exact arithmetic and 133.00000000000003 in the source's.         *)

Blue  == <<0, 0, 255>>
White == <<255, 255, 255>>
Tan   == <<220, 170, 140>>
Brown == <<141, 85, 36>>
Rosy  == <<90, 80, 80>>

maxSize == 300

\* line 96: Math.min(maxSize / naturalWidth, maxSize / naturalHeight)
Scale(img) ==
    DMin(DDiv(D(maxSize), D(img.naturalWidth)),
         DDiv(D(maxSize), D(img.naturalHeight)))

\* lines 97-98: the canvas size setters truncate the product to an integer.
CanvasWidth(img)  == DTrunc(DMul(D(img.naturalWidth), Scale(img)))
CanvasHeight(img) == DTrunc(DMul(D(img.naturalHeight), Scale(img)))

InPatch(p, x, y) == p.l <= x /\ x <= p.r /\ p.t <= y /\ y <= p.b

RECURSIVE ColourAt(_, _, _, _)
ColourAt(img, k, x, y) ==
    IF k = 0 THEN img.bg
    ELSE IF InPatch(img.patches[k], x, y) THEN img.patches[k].rgb
    ELSE ColourAt(img, k - 1, x, y)

\* lines 100-102: the RGBA buffer read back from a canvas cw pixels wide,
\* by byte index (alpha is opaque; the scan never reads it).
Data(img, cw, i) ==
    LET p  == i \div 4
        ch == i % 4
    IN  IF ch = 3 THEN 255
        ELSE ColourAt(img, Len(img.patches), p % cw, p \div cw)[ch + 1]

\* lines 105-119: the coordinates whose pixel is classified as skin.
\* isSkinTone depends on the colour alone: it is worked out once for each
\* colour of the buffer and looked up for each pixel.
SkinPixels(img) ==
    LET cw   == CanvasWidth(img)
        ch   == CanvasHeight(img)
        skin == {c \in {img.bg} \cup
                        {img.patches[k].rgb : k \in DOMAIN img.patches} :
                    isSkinTone(c[1], c[2], c[3])}
    IN  { xy \in (0 .. cw - 1) \X (0 .. ch - 1) :
            LET i == (xy[2] * cw + xy[1]) * 4
            IN  <<Data(img, cw, i), Data(img, cw, i + 1),
                  Data(img, cw, i + 2)>> \in skin }

----------------------------------------------------------------------------
(* detectFaceWithCanvas, lines 85-158, piece by piece.                     *)

Null == [kind |-> "null"]

\* lines 100-101: drawImage throws on a broken image; getImageData throws
\* on a tainted canvas and on a canvas with a zero side (IndexSizeError).
RasterFault(img) ==
    \/ img.status = "broken"
    \/ img.status = "tainted"
    \/ CanvasWidth(img) = 0
    \/ CanvasHeight(img) = 0

\* line 121: skinPixels.length < 100
TooFewLoose(skinPixels) == Cardinality(skinPixels) < 10
TooFew(skinPixels) == Cardinality(skinPixels) < 100

\* lines 127-134: the running minima and maxima, from their initial values.
BoundsNoInit(skinPixels, cw, ch) ==
    [minX |-> SetMin({xy[1] : xy \in skinPixels}),
     maxX |-> SetMax({xy[1] : xy \in skinPixels}) + 1,
     minY |-> SetMin({xy[2] : xy \in skinPixels}),
     maxY |-> SetMax({xy[2] : xy \in skinPixels}) + 1]
Bounds(skinPixels, cw, ch) ==
    [minX |-> SetMin({cw} \cup {xy[1] : xy \in skinPixels}),
     maxX |-> SetMax({0}  \cup {xy[1] : xy \in skinPixels}),
     minY |-> SetMin({ch} \cup {xy[2] : xy \in skinPixels}),
     maxY |-> SetMax({0}  \cup {xy[2] : xy \in skinPixels})]

\* line 137
FullHeight(bb) == bb.maxY - bb.minY

\* line 138: fullHeight * 0.6
Lit06 == Dec(6, 10)
HeadHeight(fullHeight) == DMul(D(fullHeight), Lit06)

\* lines 142-145: a length of the working raster divided by scale.
UnscaleWrong(length, scale) == DMul(length, scale)
Unscale(length, scale) == DDiv(length, scale)

\* lines 141-146: the box in source coordinates.
FaceBoxOf(bb, headHeight, scale) ==
    [x      |-> Unscale(D(bb.minX), scale),
     y      |-> Unscale(D(bb.minY), scale),
     width  |-> Unscale(D(bb.maxX - bb.minX), scale),
     height |-> Unscale(headHeight, scale)]

\* line 149
AspectRatio(faceBox) == DDiv(faceBox.width, faceBox.height)

\* line 150: aspectRatio < 0.5 || aspectRatio > 1.5
Lit15 == Dec(15, 10)
ImplausibleNoCheck(aspectRatio) == FALSE
ImplausibleTrap(aspectRatio) ==
    /\ aspectRatio.k = "num"
    /\ \/ DLess(aspectRatio, Lit05)
       \/ DLess(Lit15, aspectRatio)
Implausible(aspectRatio) ==
    \/ DLess(aspectRatio, Lit05)
    \/ DLess(Lit15, aspectRatio)

\* lines 121-156: from the collected coordinates to the resolved value.
ExtractBox(skinPixels, img) ==
    IF TooFew(skinPixels) THEN Null
    ELSE LET bb      == Bounds(skinPixels, CanvasWidth(img), CanvasHeight(img))
             faceBox == FaceBoxOf(bb, HeadHeight(FullHeight(bb)), Scale(img))
         IN  IF Implausible(AspectRatio(faceBox)) THEN Null
             ELSE [kind |-> "box", box |-> faceBox]

\* lines 85-158: the settled value of the promise detectFaceWithCanvas
\* returns.  ctx is what getContext('2d') gave (FALSE: null).  A throw in
\* the executor rejects the promise.
detectFaceWithCanvas(img, ctx) ==
    IF ~ctx THEN Null
    ELSE IF RasterFault(img) THEN [kind |-> "throw"]
    ELSE ExtractBox(SkinPixels(img), img)

----------------------------------------------------------------------------
(* detectFace, lines 23-79: the pure pieces.                               *)

\* lines 35-43: the first rectangle the platform detector returned, if any.
FirstFaceLast(faces) ==
    IF Len(faces) > 0
    THEN [kind |-> "box",
          box  |-> [x      |-> faces[Len(faces)].boundingBox.x,
                    y      |-> faces[Len(faces)].boundingBox.y,
                    width  |-> faces[Len(faces)].boundingBox.width,
                    height |-> faces[Len(faces)].boundingBox.height]]
    ELSE Null
FirstFace(faces) ==
    IF Len(faces) > 0
    THEN [kind |-> "box",
          box  |-> [x      |-> faces[1].boundingBox.x,
                    y      |-> faces[1].boundingBox.y,
                    width  |-> faces[1].boundingBox.width,
                    height |-> faces[1].boundingBox.height]]
    ELSE Null

\* line 55: ((faceBox.y + faceBox.height * 0.35) / imgHeight) * 100
Lit035 == Dec(35, 100)
EyeLineY(faceBox, imgHeight) ==
    DMul(DDiv(DAdd(faceBox.y, DMul(faceBox.height, Lit035)), D(imgHeight)),
         D(100))

\* line 57: ((faceBox.y + faceBox.height) / imgHeight) * 100
ChinY(faceBox, imgHeight) ==
    DMul(DDiv(DAdd(faceBox.y, faceBox.height), D(imgHeight)), D(100))

\* lines 59-63
ResultOf(faceBox, img) ==
    [kind     |-> "result",
     face     |-> faceBox,
     eyeLineY |-> EyeLineY(faceBox, img.naturalHeight),
     chinY    |-> ChinY(faceBox, img.naturalHeight)]

\* lines 50-63: what the call makes of the awaited value.  awaited is
\* [kind |-> "box", box |-> b], Null ("no box") or [kind |-> "throw"] (the
\* awaited promise rejected, or a statement of the try block threw); a box
\* becomes the result with its landmarks.
Landmark(awaited, img) ==
    IF awaited.kind = "box" THEN ResultOf(awaited.box, img) ELSE awaited

\* lines 65-78: how the call ends.  found is Landmark's value and old the
\* cached result before the step.  The outcome gives the new busy flag, the
\* new cached result, the value returned and the state of the promise
\* detectFace returned.
CompleteRethrow(found, old) ==
    IF found.kind = "throw"
    THEN [isDetecting |-> TRUE, detectionResult |-> old,
          ret |-> Null, promise |-> "rejected"]
    ELSE [isDetecting |-> FALSE, detectionResult |-> found,
          ret |-> found, promise |-> "fulfilled"]
CompleteKeepStale(found, old) ==
    IF found.kind = "result"
    THEN [isDetecting |-> FALSE, detectionResult |-> found,
          ret |-> found, promise |-> "fulfilled"]
    ELSE [isDetecting |-> FALSE, detectionResult |-> old,
          ret |-> Null, promise |-> "fulfilled"]
Complete(found, old) ==
    IF found.kind = "throw"
    THEN \* lines 73-78
         [isDetecting |-> FALSE, detectionResult |-> Null,
          ret |-> Null, promise |-> "fulfilled"]
    ELSE IF found.kind = "result"
    THEN \* lines 65-68
         [isDetecting |-> FALSE, detectionResult |-> found,
          ret |-> found, promise |-> "fulfilled"]
    ELSE \* lines 70-72
         [isDetecting |-> FALSE, detectionResult |-> Null,
          ret |-> Null, promise |-> "fulfilled"]

\* line 24: the state detectFace leaves on entry, before its first await.
\* Only the busy flag is written; the cached result is not touched.
EnterClearing(old) == [isDetecting |-> TRUE, detectionResult |-> Null]
Enter(old) == [isDetecting |-> TRUE, detectionResult |-> old]

----------------------------------------------------------------------------
(* The inputs the model draws.                                             *)

Image(nw, nh, status, bg, patches) ==
    [naturalWidth |-> nw, naturalHeight |-> nh, status |-> status,
     bg |-> bg, patches |-> patches]

\* A patch w pixels wide and h pixels high with its top-left pixel at (l, t).
Patch(l, t, w, h, rgb) ==
    [l |-> l, t |-> t, r |-> l + w - 1, b |-> t + h - 1, rgb |-> rgb]

\* Images for the hook.  Their working rasters are 300 x 16, 300 x 16,
\* 300 x 16, 300 x 1, 300 x 0 and 300 x 18:
\*   EdgeFace : a face in the bottom-right corner of a picture that is
\*              enlarged twofold;
\*   NearMiss : 99 skin pixels;
\*   Century  : the same with one more skin pixel on the right, 100;
\*   Stripe   : 110 skin pixels in a single row;
\*   Sliver   : a picture so flat that the canvas gets no row at all;
\*   Thumb    : a face in a picture 49 x 3, whose scale 300 / 49 is not a
\*              double that divides back exactly; the proportion of its
\*              box comes out as 1.4999999999999998.
EdgeFace   == Image(150, 8, "ok", Blue, << Patch(290, 3, 10, 13, Tan) >>)
NearMiss   == Image(300, 16, "ok", Blue, << Patch(3, 2, 9, 11, Tan) >>)
Century    == Image(300, 16, "ok", Blue,
                    << Patch(3, 2, 9, 11, Tan), Patch(12, 5, 1, 1, Rosy) >>)
Stripe     == Image(300, 1, "ok", Blue, << Patch(3, 0, 110, 1, Tan) >>)
Sliver     == Image(600, 1, "ok", Tan, << >>)
Thumb      == Image(49, 3, "ok", Blue, << Patch(3, 2, 10, 11, Tan) >>)
Gallery    == {EdgeFace, NearMiss, Century, Stripe, Sliver, Thumb}

\* Rectangles a platform detector reports, in whole pixels.  A face cut by
\* the left edge of the picture is reported with a negative x.
Rect(x, y, w, h) ==
    [x |-> D(x), y |-> D(y), width |-> D(w), height |-> D(h)]
Rects == {Rect(40, 10, 80, 100), Rect(-4, 2, 30, 40)}

MaxFaces == 2
MaxCalls == 2

\* The lists detect() fulfils with: up to MaxFaces faces, no face twice.
FaceLists ==
    {fs \in UNION {[1 .. n -> {[boundingBox |-> r] : r \in Rects}] :
                      n \in 0 .. MaxFaces} :
        \A i, j \in DOMAIN fs : fs[i] = fs[j] => i = j}

\* detectFaceWithCanvas on the images of the gallery, and the number of
\* coordinates its scan collects.
CanvasOutcome ==
    [img \in Gallery, ctx \in BOOLEAN |-> detectFaceWithCanvas(img, ctx)]
SkinCount ==
    [img \in Gallery |-> IF RasterFault(img) THEN 0
                         ELSE Cardinality(SkinPixels(img))]

\* Landmark on the values a call of the model can have awaited: the first
\* face of a list of the detector, and the outcome of the heuristic.
DetectorLandmark ==
    [img \in Gallery, awaited \in {FirstFace(fs) : fs \in FaceLists} |->
        Landmark(awaited, img)]
CanvasLandmark ==
    [img \in Gallery,
     awaited \in {CanvasOutcome[i, ctx] : i \in Gallery, ctx \in BOOLEAN} |->
        Landmark(awaited, img)]

\* Inputs for a run of detectFaceWithCanvas on its own: one skin patch of
\* each listed width and height at (3, 2), alone or with a stray skin pixel
\* in the top-left corner, on each native size; the rasters are 300 x 16,
\* 300 x 16 (from 16.5), 300 x 16 and 16 x 300.
NativeSizes  == {<<300, 16>>, <<600, 33>>, <<150, 8>>, <<32, 600>>}
PatchWidths  == {1, 7, 9, 10, 110}
PatchHeights == {1, 10, 11, 13, 21, 110}
Strays       == {<< >>, << Patch(0, 0, 1, 1, Brown) >>}
CanvasInputs ==
    {Image(n[1], n[2], "ok", Blue, << Patch(3, 2, w, h, Tan) >> \o st) :
        n \in NativeSizes, w \in PatchWidths, h \in PatchHeights,
        st \in Strays}
    \cup {Thumb,
          Image(281, 15, "ok", Blue, << Patch(3, 2, 10, 13, Tan) >>),
          Image(400, 22, "ok", Blue, << Patch(3, 2, 10, 11, Tan) >>),
          Image(300, 16, "ok", Blue, << Patch(3, 2, 10, 13, Rosy) >>),
          Century}
    \cup {Sliver, Image(300, 16, "broken", Blue, << >>),
          Image(32, 600, "ok", White, << Patch(3, 2, 7, 21, Brown) >>),
          Image(300, 16, "tainted", Blue, << >>),
          Image(300, 16, "ok", Blue, << >>)}

----------------------------------------------------------------------------
(* The hook as a state machine.                                            *)

VARIABLES
    isFaceDetectorSupported, \* line 17, fixed when the module is loaded
    isDetecting,             \* line 20
    detectionResult,         \* line 21
    calls,                   \* the detectFace calls made so far, in order
    lastResolved,            \* the call whose promise settled last (0: none)
    overlap,                 \* the calls that shared time with another call
    cPc, cImg, cCtx,         \* one run of detectFaceWithCanvas, step by step
    cSkin, cBounds, cHead, cOut

hookVars   == <<isFaceDetectorSupported, isDetecting, detectionResult, calls,
                lastResolved, overlap>>
canvasVars == <<cPc, cImg, cCtx, cSkin, cBounds, cHead, cOut>>
vars       == <<hookVars, canvasVars>>

NoBounds == [minX |-> 0, maxX |-> 0, minY |-> 0, maxY |-> 0]

CanvasIdle ==
    /\ cPc = "unused" /\ cImg = Sliver /\ cCtx = FALSE
    /\ cSkin = {} /\ cBounds = NoBounds /\ cHead = DZero /\ cOut = Null

HookIdle ==
    /\ isFaceDetectorSupported = FALSE
    /\ isDetecting = FALSE /\ detectionResult = Null
    /\ calls = << >> /\ lastResolved = 0 /\ overlap = {}

InFlight(c) == calls[c].pc \in {"awaitDetector", "awaitCanvas"}
Flying == {c \in DOMAIN calls : InFlight(c)}

Init ==
    /\ isFaceDetectorSupported \in BOOLEAN
    /\ isDetecting = FALSE
    /\ detectionResult = Null
    /\ calls = << >>
    /\ lastResolved = 0
    /\ overlap = {}
    /\ CanvasIdle

\* A call that has got to its first await (line 33 or line 47).
Suspended(pc, img, awaited, viaCanvas) ==
    [pc |-> pc, img |-> img, awaited |-> awaited, viaCanvas |-> viaCanvas,
     prior |-> detectionResult, faces |-> << >>, fault |-> FALSE,
     ret |-> Null, promise |-> "pending"]

Begin(call) ==
    /\ Len(calls) < MaxCalls
    /\ calls' = Append(calls, call)
    /\ overlap' = IF Flying = {} THEN overlap
                  ELSE overlap \cup Flying \cup {Len(calls) + 1}

\* The continuation of call c after its await, lines 35-78.
Settle(c, awaited, found, faces) ==
    LET out == Complete(found, detectionResult)
    IN  /\ isDetecting' = out.isDetecting
        /\ detectionResult' = out.detectionResult
        /\ calls' = [calls EXCEPT ![c].pc = "settled",
                                  ![c].awaited = awaited,
                                  ![c].faces = faces,
                                  ![c].fault = (awaited.kind = "throw"),
                                  ![c].ret = out.ret,
                                  ![c].promise = out.promise]
        /\ lastResolved' = c
        /\ UNCHANGED <<isFaceDetectorSupported, overlap, canvasVars>>

\* detectFace(img) with the platform detector: lines 24-33, up to the await
\* of detector.detect(img).
CallNative(img) ==
    /\ isFaceDetectorSupported
    /\ Begin(Suspended("awaitDetector", img, Null, FALSE))
    /\ isDetecting' = Enter(detectionResult).isDetecting
    /\ detectionResult' = Enter(detectionResult).detectionResult
    /\ UNCHANGED <<isFaceDetectorSupported, lastResolved, canvasVars>>

\* detectFace(img) when the FaceDetector constructor throws (line 32): the
\* catch block runs before the call ever suspends, lines 24-32 and 73-78.
CallNativeCtorThrows(img) ==
    /\ isFaceDetectorSupported
    /\ LET out == Complete(Landmark([kind |-> "throw"], img),
                           Enter(detectionResult).detectionResult)
       IN  /\ Begin([Suspended("settled", img, [kind |-> "throw"], FALSE)
                       EXCEPT !.fault = TRUE, !.ret = out.ret,
                              !.promise = out.promise])
           /\ isDetecting' = out.isDetecting
           /\ detectionResult' = out.detectionResult
    /\ lastResolved' = Len(calls) + 1
    /\ UNCHANGED <<isFaceDetectorSupported, canvasVars>>

\* detectFace(img) without the platform detector: lines 24-29 and 44-47.
\* The executor of detectFaceWithCanvas runs to its end inside the call;
\* the await of its promise then suspends the call.
CallCanvas(img, ctx) ==
    /\ ~isFaceDetectorSupported
    /\ Begin(Suspended("awaitCanvas", img, CanvasOutcome[img, ctx], TRUE))
    /\ isDetecting' = Enter(detectionResult).isDetecting
    /\ detectionResult' = Enter(detectionResult).detectionResult
    /\ UNCHANGED <<isFaceDetectorSupported, lastResolved, canvasVars>>

\* detector.detect(img) fulfils with a list of faces: lines 33-72.
DetectorFulfils(c, faces) ==
    /\ calls[c].pc = "awaitDetector"
    /\ Settle(c, FirstFace(faces),
              DetectorLandmark[calls[c].img, FirstFace(faces)], faces)

\* detector.detect(img) rejects: lines 33 and 73-78.
DetectorRejects(c) ==
    /\ calls[c].pc = "awaitDetector"
    /\ Settle(c, [kind |-> "throw"],
              Landmark([kind |-> "throw"], calls[c].img), << >>)

\* the promise of detectFaceWithCanvas is delivered: lines 47-78.
CanvasDelivers(c) ==
    /\ calls[c].pc = "awaitCanvas"
    /\ Settle(c, calls[c].awaited,
              CanvasLandmark[calls[c].img, calls[c].awaited], << >>)

Next ==
    \/ \E img \in Gallery : CallNative(img)
    \/ \E img \in Gallery : CallNativeCtorThrows(img)
    \/ \E img \in Gallery, ctx \in BOOLEAN : CallCanvas(img, ctx)
    \/ \E c \in DOMAIN calls, faces \in FaceLists : DetectorFulfils(c, faces)
    \/ \E c \in DOMAIN calls : DetectorRejects(c)
    \/ \E c \in DOMAIN calls : CanvasDelivers(c)

Spec == Init /\ [][Next]_vars

----------------------------------------------------------------------------
(* One run of detectFaceWithCanvas, step by step (lines 85-158).           *)

CanvasInit ==
    /\ HookIdle
    /\ cImg \in CanvasInputs
    /\ cCtx \in BOOLEAN
    /\ cPc = "open"
    /\ cSkin = {} /\ cBounds = NoBounds /\ cHead = DZero /\ cOut = Null

\* lines 87-92: no 2D context, resolve(null).
CanvasNoContext ==
    /\ cPc = "open" /\ ~cCtx
    /\ cPc' = "resolved" /\ cOut' = Null
    /\ UNCHANGED <<hookVars, cImg, cCtx, cSkin, cBounds, cHead>>

\* lines 94-102: size the canvas, draw, read back; a throw rejects.
CanvasDraw ==
    /\ cPc = "open" /\ cCtx
    /\ IF RasterFault(cImg)
       THEN cPc' = "rejected" /\ cOut' = [kind |-> "throw"]
       ELSE cPc' = "scan" /\ cOut' = cOut
    /\ UNCHANGED <<hookVars, cImg, cCtx, cSkin, cBounds, cHead>>

\* lines 105-124: scan, then the count test.
CanvasScan ==
    /\ cPc = "scan"
    /\ cSkin' = SkinPixels(cImg)
    /\ cPc' = IF TooFew(cSkin') THEN "resolved" ELSE "bounds"
    /\ cOut' = Null
    /\ UNCHANGED <<hookVars, cImg, cCtx, cBounds, cHead>>

\* lines 126-138: bounding box, full height, head height.
CanvasBound ==
    /\ cPc = "bounds"
    /\ cBounds' = Bounds(cSkin, CanvasWidth(cImg), CanvasHeight(cImg))
    /\ cHead' = HeadHeight(FullHeight(cBounds'))
    /\ cPc' = "validate"
    /\ UNCHANGED <<hookVars, cImg, cCtx, cSkin, cOut>>

\* lines 140-156: scale back, test the proportions, resolve.
CanvasValidate ==
    /\ cPc = "validate"
    /\ LET faceBox == FaceBoxOf(cBounds, cHead, Scale(cImg))
       IN  cOut' = IF Implausible(AspectRatio(faceBox)) THEN Null
                   ELSE [kind |-> "box", box |-> faceBox]
    /\ cPc' = "resolved"
    /\ UNCHANGED <<hookVars, cImg, cCtx, cSkin, cBounds, cHead>>

CanvasNext ==
    \/ CanvasNoContext
    \/ CanvasDraw
    \/ CanvasScan
    \/ CanvasBound
    \/ CanvasValidate

CanvasSpec == CanvasInit /\ [][CanvasNext]_vars

----------------------------------------------------------------------------
(* Properties.                                                             *)

Settled(c) == calls[c].pc = "settled"
Returned(c) == Settled(c) /\ calls[c].ret.kind = "result"
\* a <= b on doubles (false on NaN).
DLeq(a, b) ==
    IF a.k = "nan" \/ b.k = "nan" THEN FALSE
    ELSE a = b \/ DLess(a, b)

ValidBox(b) ==
    /\ DLess(DZero, b.width) /\ DLess(DZero, b.height)
    /\ DLeq(DZero, b.x) /\ DLeq(DZero, b.y)

\* The number d is p / q to within one part in 2^50 (p >= 0 and q > 0
\* integers): the quotient as computed by a few operations on doubles.
Near(d, p, q) ==
    /\ d.k = "num" /\ d.s = 0
    /\ LET a    == BMul(d.m, BOfNat(q))
           l    == IF d.e >= 0 THEN BShl(a, d.e) ELSE a
           r    == IF d.e >= 0 THEN BOfNat(p) ELSE BShl(BOfNat(p), -d.e)
           diff == IF BCmp(l, r) >= 0 THEN BSub(l, r) ELSE BSub(r, l)
       IN  BCmp(BShl(diff, 50), r) <= 0

\* The results the calls of the model can return.
GalleryResults ==
    {r \in {DetectorLandmark[x] : x \in DOMAIN DetectorLandmark}
            \cup {CanvasLandmark[x] : x \in DOMAIN CanvasLandmark} :
        r.kind = "result"}

\* ValidBox on the rectangles of the model.
IsValidBox ==
    [b \in Rects \cup {r.face : r \in GalleryResults} |-> ValidBox(b)]

\* r carries the landmarks of its face in an image h pixels high: eyeLineY
\* is (y + 0.35 height) / h * 100 and chinY is (y + height) / h * 100, for a
\* face whose y and height are whole numbers.
HasLandmarks(r, h) ==
    LET y == DTrunc(r.face.y)
        t == DTrunc(r.face.height)
    IN  /\ r.face.y = D(y) /\ r.face.height = D(t)
        /\ Near(r.eyeLineY, 100 * y + 35 * t, h)
        /\ Near(r.chinY, 100 * y + 100 * t, h)
LandmarksOn ==
    [img \in Gallery, r \in GalleryResults |->
        HasLandmarks(r, img.naturalHeight)]

\* a + b < n, the sum taken exactly (n an integer).
SumBelow(a, b, n) ==
    /\ a.k = "num" /\ b.k = "num"
    /\ LET x == DSumExact(a, b)
       IN  DCmp([k |-> "num", s |-> x.s, m |-> x.m, e |-> x.e], D(n)) < 0

\* C1: detectFace never surfaces a fault.  No call's promise is ever
\* rejected; a call during which a fault was raised (the detector's
\* constructor, detect(), the raster draw or read-back) has its promise
\* fulfilled with null, and while it is the call that settled last the
\* cached result is null.
C1_FaultYieldsAbsent ==
    \A c \in DOMAIN calls :
        /\ calls[c].promise # "rejected"
        /\ (Settled(c) /\ calls[c].fault) =>
              /\ calls[c].promise = "fulfilled"
              /\ calls[c].ret = Null
              /\ (lastResolved = c => detectionResult = Null)

\* A faulted call has settled last, and it began with a face in the cache.
C1_Witness ==
    \E c \in DOMAIN calls :
        /\ Settled(c) /\ calls[c].fault /\ lastResolved = c
        /\ calls[c].prior.kind = "result"

\* C2: with no other call in flight during it, a call keeps the busy flag
\* true from its start until it finishes, and once no call is in flight the
\* busy flag is false, whatever the outcome was.
C2_BusyExactlyWhileDetecting ==
    /\ \A c \in DOMAIN calls :
          (InFlight(c) /\ c \notin overlap) => isDetecting
    /\ (Flying = {} => ~isDetecting)

\* Two calls one after the other, the first found a face, the second ended
\* in the catch block; the hook is idle again.
C2_Witness ==
    /\ Len(calls) = 2 /\ overlap = {} /\ Flying = {}
    /\ calls[1].ret.kind = "result"
    /\ calls[2].fault
    /\ ~isDetecting

\* C3 as stated: while a call is in flight, alone, the cached result is
\* null.
C3_PriorResultCleared ==
    \A c \in DOMAIN calls :
        (InFlight(c) /\ c \notin overlap) => detectionResult = Null

\* C3 amended: entering Detecting leaves the cached result alone.  While a
\* call is in flight, alone, the cached result is still what it was when
\* the call began.
C3_PriorResultKept ==
    \A c \in DOMAIN calls :
        (InFlight(c) /\ c \notin overlap) => detectionResult = calls[c].prior

\* A call is in flight, alone, and the call before it had cached a face.
C3_Witness ==
    \E c \in DOMAIN calls :
        /\ InFlight(c) /\ c \notin overlap
        /\ calls[c].prior.kind = "result"

\* C4: with the platform detector present no call runs the heuristic; a
\* call whose detect() fulfilled returns null when the list is empty and
\* otherwise the first rectangle, field for field, with
\* eyeLineY = (y + 0.35 height) / naturalHeight * 100 and
\* chinY = (y + height) / naturalHeight * 100, as doubles compute them.
C4_PlatformRectangleVerbatim ==
    isFaceDetectorSupported =>
      \A c \in DOMAIN calls :
        /\ ~calls[c].viaCanvas
        /\ (Settled(c) /\ ~calls[c].fault) =>
              IF calls[c].faces = << >> THEN calls[c].ret = Null
              ELSE LET r == calls[c].faces[1].boundingBox
                   IN  /\ calls[c].ret.kind = "result"
                       /\ calls[c].ret.face.x = r.x
                       /\ calls[c].ret.face.y = r.y
                       /\ calls[c].ret.face.width = r.width
                       /\ calls[c].ret.face.height = r.height
                       /\ LandmarksOn[calls[c].img, calls[c].ret]

\* The detector reported two different rectangles and the call returned a
\* result.
C4_Witness ==
    \E c \in DOMAIN calls :
        /\ Returned(c) /\ ~calls[c].viaCanvas
        /\ Len(calls[c].faces) = 2
        /\ calls[c].faces[1] # calls[c].faces[2]

\* C5 as stated: every FaceBox returned or cached has width > 0,
\* height > 0, x >= 0 and y >= 0, on both paths.
C5_EveryBoxValid ==
    /\ \A c \in DOMAIN calls : Returned(c) => IsValidBox[calls[c].ret.face]
    /\ (detectionResult.kind = "result" => IsValidBox[detectionResult.face])

\* C5 amended: on the heuristic path every FaceBox returned or cached has
\* width > 0, height > 0, x >= 0 and y >= 0; on the platform path the
\* FaceBox has them exactly when the detector's first rectangle has.
C5_HeuristicBoxValid ==
    /\ \A c \in DOMAIN calls :
          Returned(c) =>
             IF calls[c].viaCanvas THEN IsValidBox[calls[c].ret.face]
             ELSE IsValidBox[calls[c].ret.face]
                     <=> IsValidBox[calls[c].faces[1].boundingBox]
    /\ (~isFaceDetectorSupported /\ detectionResult.kind = "result")
          => IsValidBox[detectionResult.face]

\* The heuristic returned a box for the picture whose scale is 300 / 49,
\* and it is the cached one.
C5_Witness ==
    \E c \in DOMAIN calls :
        /\ Returned(c) /\ calls[c].viaCanvas /\ calls[c].img = Thumb
        /\ detectionResult = calls[c].ret

\* C6: without the platform detector, a call on a raster with fewer than
\* 100 skin pixels returns null and, while it is the call that settled
\* last, the cache is null; a call that returns a box had at least 100.
C6_FewerThanHundredIsAbsent ==
    \A c \in DOMAIN calls :
        (calls[c].viaCanvas /\ Settled(c)) =>
           /\ SkinCount[calls[c].img] < 100 =>
                 /\ calls[c].ret = Null
                 /\ (lastResolved = c => detectionResult = Null)
           /\ calls[c].ret.kind = "result" => SkinCount[calls[c].img] >= 100

\* A call on the raster with 99 skin pixels has settled, with a 2D context,
\* after a call that had cached a face.
C6_Witness ==
    \E c \in DOMAIN calls :
        /\ calls[c].viaCanvas /\ Settled(c) /\ lastResolved = c
        /\ SkinCount[calls[c].img] = 99
        /\ calls[c].awaited = CanvasOutcome[calls[c].img, TRUE]
        /\ calls[c].prior.kind = "result"

\* C8: once every call has settled, calls having overlapped, the cached
\* result is the value returned by the call that settled last and the busy
\* flag is false.
C8_LastWriterWins ==
    (overlap # {} /\ Flying = {}) =>
        /\ detectionResult = calls[lastResolved].ret
        /\ ~isDetecting

\* Two overlapping calls, the one issued first settled last, and the two
\* returned different values.
C8_Witness ==
    /\ Len(calls) = 2 /\ overlap = {1, 2} /\ Flying = {}
    /\ lastResolved = 1
    /\ calls[1].ret # calls[2].ret

\* r lies inside the image img.
Inside(r, img) ==
    /\ SumBelow(r.face.x, r.face.width, img.naturalWidth)
    /\ SumBelow(r.face.y, r.face.height, img.naturalHeight)
    /\ DLeq(DZero, r.eyeLineY)
    /\ DLeq(r.eyeLineY, r.chinY)
    /\ DLess(r.chinY, D(100))
InsideOn == [img \in Gallery, r \in GalleryResults |-> Inside(r, img)]

\* C10: on the heuristic path every returned result lies inside the image:
\* x + width < naturalWidth, y + height < naturalHeight and
\* 0 <= eyeLineY <= chinY < 100.
C10_HeuristicResultInsideImage ==
    \A c \in DOMAIN calls :
        (Returned(c) /\ calls[c].viaCanvas) =>
           InsideOn[calls[c].img, calls[c].ret]

\* The heuristic returned the face in the bottom-right corner of the
\* enlarged picture, and the face of the picture whose scale is 300 / 49.
C10_Witness ==
    \E c, d \in DOMAIN calls :
        /\ Returned(c) /\ calls[c].viaCanvas /\ calls[c].img = EdgeFace
        /\ Returned(d) /\ calls[d].viaCanvas /\ calls[d].img = Thumb

----------------------------------------------------------------------------
(* Properties of detectFaceWithCanvas run on its own.                      *)

\* The rectangle of the first patch of the image, and the coordinates of
\* its pixels.
RectR == cImg.patches[1]
RectPixels(R) == (R.l .. R.r) \X (R.t .. R.b)
SkinIsRectR == cImg.patches # << >> /\ cSkin = RectPixels(RectR)
RWidth == RectR.r - RectR.l + 1
RHeight == RectR.b - RectR.t + 1

\* The longer side of the image: the scale is maxSize over it.
LongSide == IF cImg.naturalWidth > cImg.naturalHeight
            THEN cImg.naturalWidth ELSE cImg.naturalHeight

\* C7 as stated: when the skin pixels are exactly those of R, the box
\* before the restriction has R's left, top, width and height, and the
\* restricted height is 0.6 times R's height.
C7_BoxEqualsR ==
    (cPc = "validate" /\ SkinIsRectR) =>
        /\ cBounds.minX = RectR.l
        /\ cBounds.minY = RectR.t
        /\ cBounds.maxX - cBounds.minX = RWidth
        /\ FullHeight(cBounds) = RHeight
        /\ Near(cHead, 6 * RHeight, 10)

\* C7 amended: when the skin pixels are exactly those of R, the box before
\* the restriction has R's left and top, and its width and height are R's
\* less one (last pixel minus first pixel); the restricted height is 0.6
\* times (R's height - 1), and the box resolved has its top at R's top and
\* that height, both divided by the scale (maxSize over the longer side of
\* the image).
C7_BoxIsRLessOne ==
    /\ (cPc = "validate" /\ SkinIsRectR) =>
          /\ cBounds.minX = RectR.l
          /\ cBounds.minY = RectR.t
          /\ cBounds.maxX - cBounds.minX = RWidth - 1
          /\ FullHeight(cBounds) = RHeight - 1
          /\ Near(cHead, 6 * (RHeight - 1), 10)
    /\ (cPc = "resolved" /\ SkinIsRectR /\ cOut.kind = "box") =>
          /\ Near(cOut.box.y, RectR.t * LongSide, maxSize)
          /\ Near(cOut.box.height, 6 * (RHeight - 1) * LongSide,
                  10 * maxSize)

\* The skin pixels are those of a rectangle 10 wide and 13 high, on a
\* raster that was reduced by half, and the box was resolved.
C7_Witness ==
    /\ cPc = "resolved" /\ SkinIsRectR /\ cOut.kind = "box"
    /\ RWidth = 10 /\ RHeight = 13
    /\ cImg.naturalWidth = 600

\* C9: a box the heuristic resolves has a positive height and
\* 0.5 <= width / height <= 1.5, the quotient being the double the division
\* gives; the promise is rejected only by a raster fault, never by the
\* division; and 100 or more skin coordinates in a single row resolve null.
SingleRow == Cardinality({p[2] : p \in cSkin}) <= 1
C9_AspectRatioBoundedNoFault ==
    /\ cOut.kind = "box" =>
          /\ DLess(DZero, cOut.box.height)
          /\ DLeq(Dec(1, 2), DDiv(cOut.box.width, cOut.box.height))
          /\ DLeq(DDiv(cOut.box.width, cOut.box.height), Dec(3, 2))
    /\ (cPc = "rejected" => RasterFault(cImg))
    /\ (cPc = "resolved" /\ Cardinality(cSkin) >= 100 /\ SingleRow)
          => cOut = Null

\* 110 skin coordinates in one row were collected and the run resolved.
C9_Witness ==
    /\ cPc = "resolved" /\ Cardinality(cSkin) = 110 /\ SingleRow
    /\ cBounds.maxY = cBounds.minY /\ cHead = DZero

=============================================================================
